---- MODULE Spec2Model ----
(***************************************************************************)
(* A model of the scanner runtime of yara-x:                               *)
(*   - Scanner::new / Scanner::scan and the ScanResults iterators          *)
(*     (src/src/scanner/mod.rs), specification Spec;                       *)
(*   - the sector-chain walk of the OLECF parser                           *)
(*     (src/lib/src/modules/olecf/parser.rs), specification SpecOlecf.     *)
(***************************************************************************)
EXTENDS Integers, Sequences, FiniteSets, TLC

(***************************************************************************)
(* Bounds of the model.                                                    *)
(***************************************************************************)
\* Largest number of rules in a compiled rule set.
MaxRules == 2
\* Longest scanned buffer, in bytes.
MaxDataLen == 2
\* Number of leading FAT entries an input image chooses freely.
MaxFatEntries == 3

(***************************************************************************)
(* Scanner state (struct ScanContext, struct Scanner) and the position of  *)
(* the one scan() call in progress.                                        *)
(***************************************************************************)
VARIABLES
    compiled_rules,         \* [rules, imported_modules], borrowed for the scanner's life
    rules_matching_bitmap,  \* sequence of BOOLEAN, bit of RuleId i at index i + 1
    rules_matching,         \* sequence of RuleId
    scanned_data,           \* NULL, or Ptr(buffer)
    scanned_data_len,
    string_pool,            \* sequence of interned strings, the id is the index
    root_struct,            \* function: module name -> value tree
    filesize,               \* the wasm global `filesize`
    pc,                     \* "idle" | "modules" | "vm" | "panicked"
    mod_idx,                \* next imported module whose main runs
    vm_idx,                 \* next rule the entry function evaluates
    scan_result,            \* what the last scan() call gave its caller
    view,                   \* TRUE while a ScanResults borrows the context
    trapped,                \* the entry function of the last scan trapped
    deadline_expired,       \* a host deadline passed while the entry function ran
    pool_prev,              \* the string pool as the previous scan left it
    history,                \* the last two finished scan() calls, oldest first
    log                     \* the steps of the scan() call in progress, or of the last one

(***************************************************************************)
(* State of the OLECF parser and of one follow_chain call.                 *)
(***************************************************************************)
VARIABLES
    image,                  \* the parameters the input buffer is built from
    fat_sectors,            \* OLECFParser.fat_sectors
    fc_pc,                  \* "idle" | "loop" | "done"
    fc_start,               \* start_sector of the call
    chain,                  \* the local `chain`
    current,                \* the local `current`
    fc_steps,               \* loop iterations entered so far
    p_pc,                   \* OLECFParser::new: "new" | "header" | "ready" | "failed"
    directory_sectors,      \* OLECFParser.directory_sectors
    mini_fat_sectors,       \* OLECFParser.mini_fat_sectors
    dir_entries,            \* OLECFParser.dir_entries: function name -> DirectoryEntry
    mini_stream_start,      \* OLECFParser.mini_stream_start
    mini_stream_size,       \* OLECFParser.mini_stream_size
    read                    \* the last get_stream_data call and what it returned

(***************************************************************************)
(* State of the C API: the thread-local LAST_ERROR of each thread.         *)
(***************************************************************************)
VARIABLES
    LAST_ERROR,             \* function: thread -> NULL or <<message>>
    last_call,              \* function: thread -> the last API function it called
    observed,               \* function: thread -> what its last yrx_last_error returned
    calls                   \* function: thread -> number of API calls it made

scan_vars == <<compiled_rules, rules_matching_bitmap, rules_matching, scanned_data,
               scanned_data_len, string_pool, root_struct, filesize, pc, mod_idx,
               vm_idx, scan_result, view, trapped, deadline_expired, pool_prev,
               history, log>>
parser_vars == <<p_pc, directory_sectors, mini_fat_sectors, dir_entries,
                 mini_stream_start, mini_stream_size, read>>
olecf_vars == <<image, fat_sectors, fc_pc, fc_start, chain, current, fc_steps,
                parser_vars>>
capi_vars == <<LAST_ERROR, last_call, observed, calls>>
vars == <<scan_vars, olecf_vars, capi_vars>>

(***************************************************************************)
(* Compiled rules: an ordered list of rules whose RuleId is the index, and *)
(* the list of imported module names.  A rule's condition is one of a few  *)
(* shapes of compiled rule logic.                                          *)
(***************************************************************************)
CondKinds == {"true", "false", "filesize_gt", "div_filesize"}

MakeRules(conds) == [i \in 1..Len(conds) |-> [id |-> i - 1, cond |-> conds[i]]]

RuleSets == UNION {{MakeRules(c) : c \in [1..n -> CondKinds]} : n \in 0..MaxRules}

ImportLists == {<< >>, <<"m2", "m1">>}

DataSet == UNION {[1..n -> {65}] : n \in 0..MaxDataLen}

NULL == << >>

Ptr(data) == <<data>>

\* compiled_rules.rules().len()
NumRules == Len(compiled_rules.rules)

(***************************************************************************)
(* Helpers on sequences.                                                   *)
(***************************************************************************)
Range(s) == {s[i] : i \in 1..Len(s)}

NoDuplicates(s) == \A i, j \in 1..Len(s) : i # j => s[i] # s[j]

\* BitVec::repeat(false, n)
BitVecRepeatFalse(n) == [i \in 1..n |-> FALSE]

PopCount(bm) == Cardinality({i \in 1..Len(bm) : bm[i]})

(***************************************************************************)
(* The reset at the start of scan().                                       *)
(***************************************************************************)
KeepBitmap(bm) == bm

\* ctx.rules_matching_bitmap.fill(false)
BitmapFillFalse(bm) == [i \in 1..Len(bm) |-> FALSE]

KeepRulesMatching(rm) == rm

\* ctx.rules_matching.clear()
RulesMatchingClear(rm) == << >>

KeepStringPool(pool) == pool

\* ctx.string_pool = BStringPool::new()
NewStringPool(pool) == << >>

(***************************************************************************)
(* The string pool and the modules' main functions.                        *)
(***************************************************************************)
\* BStringPool::get_or_intern: the id of a known string, or a new id.
Intern(pool, str) == IF str \in Range(pool) THEN pool ELSE Append(pool, str)

\* What a module's main makes of the scanned data it reads from the context.
ModuleOutput(name, data_len) == [module |-> name, size |-> data_len]

\* The string a module's main interns while it builds its output.
ModuleString(name, data_len) == <<name, data_len>>

\* RuntimeStruct::insert: the tree stored under the name is replaced.
StructInsert(rs, name, tree) ==
    [k \in (DOMAIN rs) \cup {name} |-> IF k = name THEN tree ELSE rs[k]]

(***************************************************************************)
(* The entry function of the compiled module: it evaluates the rules in    *)
(* RuleId order and calls the host's rule_match for each one that matches. *)
(***************************************************************************)
\* "match" | "nomatch" | "trap" (an integer division by zero) for the conditions
\*   true,  false,  filesize > 1,  1 \ (filesize - 1) == 1
EvalCond(cond, fsz) ==
    CASE cond = "true" -> "match"
      [] cond = "false" -> "nomatch"
      [] cond = "filesize_gt" -> IF fsz > 1 THEN "match" ELSE "nomatch"
      [] cond = "div_filesize" ->
             IF fsz - 1 = 0 THEN "trap"
             ELSE IF 1 \div (fsz - 1) = 1 THEN "match" ELSE "nomatch"

\* rule_match: scan_ctx.rules_matching_bitmap.set(rule_id, true)
BitmapSet(bm, rule_id) == [bm EXCEPT ![rule_id + 1] = TRUE]

\* rule_match: scan_ctx.rules_matching.push(rule_id)
MatchingPush(rm, rule_id) == Append(rm, rule_id)

\* The match list a complete run of the entry function records.
RECURSIVE FullMatchList(_, _, _)
FullMatchList(rules, fsz, i) ==
    IF i > Len(rules) THEN << >>
    ELSE IF EvalCond(rules[i].cond, fsz) = "match"
         THEN <<rules[i].id>> \o FullMatchList(rules, fsz, i + 1)
         ELSE FullMatchList(rules, fsz, i + 1)

(***************************************************************************)
(* Result::unwrap on what TypedFunc::call returned.                        *)
(***************************************************************************)
UnwrapIgnoreErr(call_result) == "value"

Unwrap(call_result) == IF call_result = "Ok" THEN "value" ELSE "panic"

(***************************************************************************)
(* ScanResults and its iterators.                                          *)
(***************************************************************************)
\* ScanResults::matching_rules
matching_rules == Len(rules_matching)

\* The items IterMatches::next yields until it returns None.
RECURSIVE IterMatchesFrom(_)
IterMatchesFrom(i) ==
    IF i > Len(rules_matching) THEN << >>
    ELSE <<compiled_rules.rules[rules_matching[i] + 1]>> \o IterMatchesFrom(i + 1)

IterMatchesSkipFirst == IterMatchesFrom(2)

\* ScanResults::iter, run to its end
IterMatches == IterMatchesFrom(1)

RECURSIVE IterOnesFrom(_, _)
IterOnesFrom(bm, i) ==
    IF i > Len(bm) THEN << >>
    ELSE IF bm[i] THEN <<i - 1>> \o IterOnesFrom(bm, i + 1)
         ELSE IterOnesFrom(bm, i + 1)

\* bitvec's iter_zeros: the indexes of the zero bits from `i` on, ascending.
RECURSIVE IterZerosFrom(_, _)
IterZerosFrom(bm, i) ==
    IF i > Len(bm) THEN << >>
    ELSE IF ~bm[i] THEN <<i - 1>> \o IterZerosFrom(bm, i + 1)
         ELSE IterZerosFrom(bm, i + 1)

\* ScanResults::iter_non_matches, run to its end
IterNonMatches ==
    LET zeros == IterZerosFrom(rules_matching_bitmap, 1)
    IN  [k \in 1..Len(zeros) |-> compiled_rules.rules[zeros[k] + 1]]

Ids(items) == [k \in 1..Len(items) |-> items[k].id]

(***************************************************************************)
(* Scanner::new                                                            *)
(***************************************************************************)
ScannerNew(rules, imports) ==
    /\ compiled_rules = [rules |-> rules, imported_modules |-> imports]
    /\ string_pool = << >>
    /\ root_struct = << >>
    /\ scanned_data = NULL
    /\ scanned_data_len = 0
    /\ rules_matching = << >>
    /\ rules_matching_bitmap = BitVecRepeatFalse(Len(rules))
    /\ filesize = 0
    /\ pc = "idle"
    /\ mod_idx = 1
    /\ vm_idx = 1
    /\ scan_result = "none"
    /\ view = FALSE
    /\ trapped = FALSE
    /\ deadline_expired = FALSE
    /\ pool_prev = << >>
    /\ history = << >>
    /\ log = << >>

\* No get_stream_data call was made yet.
NoRead ==
    [name |-> << >>, path |-> "none", result |-> <<"none">>, iterations |-> 0,
     root_iterations |-> 0]

\* OLECFParser::new, its struct literal: the parser before parse() runs.
ParserFresh ==
    /\ p_pc = "new"
    /\ directory_sectors = << >>
    /\ mini_fat_sectors = << >>
    /\ dir_entries = << >>
    /\ mini_stream_start = <<0, 0>>
    /\ mini_stream_size = 0
    /\ read = NoRead

\* No parser exists: the state of the OLECF variables while the scanner runs.
OlecfUnused ==
    /\ image = << >>
    /\ fat_sectors = << >>
    /\ fc_pc = "idle"
    /\ fc_start = <<0, 0>>
    /\ chain = << >>
    /\ current = <<0, 0>>
    /\ fc_steps = 0
    /\ ParserFresh

\* The threads that call the C API.
Threads == {"t1", "t2"}

\* thread_local! LAST_ERROR = RefCell::new(None), in every thread.
LastErrorInit ==
    /\ LAST_ERROR = [t \in Threads |-> NULL]
    /\ last_call = [t \in Threads |-> [fn |-> "none", result |-> "none",
                                       message |-> NULL, before |-> NULL]]
    /\ observed = [t \in Threads |-> <<"none", NULL>>]
    /\ calls = [t \in Threads |-> 0]

Init ==
    /\ \E rules \in RuleSets, imports \in ImportLists : ScannerNew(rules, imports)
    /\ OlecfUnused
    /\ LastErrorInit

\* One entry of the step log: what was done, and for which module ("" if none).
Step(what, module_name) == <<what, module_name>>

\* The module whose main runs in iteration `idx` of the loop over the imports.
ReverseImportOrder(imports, idx) == imports[Len(imports) + 1 - idx]

ImportedModule(imports, idx) == imports[idx]

\* ctx.root_struct.insert(module_name, RuntimeValue::Struct(...))
KeepFirstTree(rs, module_name, tree) ==
    IF module_name \in DOMAIN rs THEN rs ELSE StructInsert(rs, module_name, tree)

RootStructInsert(rs, module_name, tree) == StructInsert(rs, module_name, tree)

(***************************************************************************)
(* Scanner::scan, from its entry to the loop over the imported modules.    *)
(* A caller that caught the panic of an earlier scan may scan again.       *)
(***************************************************************************)
ScanBegin(data) ==
    /\ pc \in {"idle", "panicked"}
    /\ filesize' = Len(data)
    /\ rules_matching_bitmap' = BitmapFillFalse(rules_matching_bitmap)
    /\ rules_matching' = RulesMatchingClear(rules_matching)
    /\ scanned_data' = Ptr(data)
    /\ scanned_data_len' = Len(data)
    /\ string_pool' = NewStringPool(string_pool)
    /\ pc' = "modules"
    /\ mod_idx' = 1
    /\ scan_result' = "none"
    /\ view' = FALSE
    /\ trapped' = FALSE
    /\ deadline_expired' = FALSE
    /\ log' = <<Step("filesize.set", ""),
                Step("rules_matching_bitmap.fill", ""),
                Step("rules_matching.clear", ""),
                Step("scanned_data.set", "")>>
    /\ UNCHANGED <<compiled_rules, root_struct, vm_idx, pool_prev, history>>
    /\ UNCHANGED <<olecf_vars, capi_vars>>

\* One iteration of `for module_name in ctx.compiled_rules.imported_modules()`.
RunModuleMain ==
    /\ pc = "modules"
    /\ mod_idx <= Len(compiled_rules.imported_modules)
    /\ LET module_name == ImportedModule(compiled_rules.imported_modules, mod_idx)
       IN  /\ string_pool' =
                  Intern(string_pool, ModuleString(module_name, scanned_data_len))
           /\ root_struct' =
                  RootStructInsert(root_struct, module_name,
                                   ModuleOutput(module_name, scanned_data_len))
           /\ log' = log \o <<Step("main_fn", module_name),
                               Step("root_struct.insert", module_name)>>
    /\ mod_idx' = mod_idx + 1
    /\ UNCHANGED <<compiled_rules, rules_matching_bitmap, rules_matching, scanned_data,
                   scanned_data_len, filesize, pc, vm_idx, scan_result, view, trapped,
                   deadline_expired, pool_prev, history>>
    /\ UNCHANGED <<olecf_vars, capi_vars>>

\* self.wasm_main_fn.call(...): the entry function starts.
EnterVM ==
    /\ pc = "modules"
    /\ mod_idx > Len(compiled_rules.imported_modules)
    /\ pc' = "vm"
    /\ vm_idx' = 1
    /\ log' = Append(log, Step("wasm_main_fn.call", ""))
    /\ UNCHANGED <<compiled_rules, rules_matching_bitmap, rules_matching, scanned_data,
                   scanned_data_len, string_pool, root_struct, filesize, mod_idx,
                   scan_result, view, trapped, deadline_expired, pool_prev, history>>
    /\ UNCHANGED <<olecf_vars, capi_vars>>

\* The entry function evaluates one rule; a match calls the host's rule_match.
VMEvalRule ==
    /\ pc = "vm"
    /\ vm_idx <= NumRules
    /\ LET rule == compiled_rules.rules[vm_idx]
           r == EvalCond(rule.cond, filesize)
       IN  /\ r # "trap"
           /\ IF r = "match"
              THEN /\ rules_matching_bitmap' = BitmapSet(rules_matching_bitmap, rule.id)
                   /\ rules_matching' = MatchingPush(rules_matching, rule.id)
              ELSE UNCHANGED <<rules_matching_bitmap, rules_matching>>
    /\ vm_idx' = vm_idx + 1
    /\ UNCHANGED <<compiled_rules, scanned_data, scanned_data_len, string_pool,
                   root_struct, filesize, pc, mod_idx, scan_result, view, trapped,
                   deadline_expired, pool_prev, history, log>>
    /\ UNCHANGED <<olecf_vars, capi_vars>>

\* The host's deadline passes while the entry function runs.  scan() takes no
\* deadline and sets none on the store: nothing reads this.
DeadlineExpires ==
    /\ pc = "vm"
    /\ ~deadline_expired
    /\ deadline_expired' = TRUE
    /\ UNCHANGED <<compiled_rules, rules_matching_bitmap, rules_matching, scanned_data,
                   scanned_data_len, string_pool, root_struct, filesize, pc, mod_idx,
                   vm_idx, scan_result, view, trapped, pool_prev, history, log>>
    /\ UNCHANGED <<olecf_vars, capi_vars>>

LastTwo(h) == IF Len(h) > 2 THEN Tail(h) ELSE h

\* The rest of scan() once TypedFunc::call has returned `call_result`:
\* unwrap it, clear the data pointer, hand out the results view.
ScanEnd(call_result) ==
    /\ IF Unwrap(call_result) = "panic"
       THEN /\ pc' = "panicked"
            /\ scan_result' = "panic"
            /\ view' = FALSE
            /\ log' = log \o <<Step("wasm_main_fn.return", ""), Step("panic", "")>>
            /\ UNCHANGED <<scanned_data, scanned_data_len>>
       ELSE /\ pc' = "idle"
            /\ scanned_data' = NULL
            /\ scanned_data_len' = 0
            /\ scan_result' = "ScanResults"
            /\ view' = TRUE
            /\ log' = log \o <<Step("wasm_main_fn.return", ""),
                                Step("scanned_data.clear", ""),
                                Step("ScanResults::new", "")>>
    /\ trapped' = (call_result = "Err")
    /\ pool_prev' = string_pool
    /\ history' = LastTwo(Append(history, [data |-> scanned_data[1],
                                           result |-> scan_result',
                                           clean |-> call_result = "Ok",
                                           matching |-> rules_matching]))
    /\ UNCHANGED <<compiled_rules, rules_matching_bitmap, rules_matching, string_pool,
                   root_struct, filesize, mod_idx, vm_idx, deadline_expired>>
    /\ UNCHANGED <<olecf_vars, capi_vars>>

\* A rule's condition traps: the call returns Err.
VMTrap ==
    /\ pc = "vm"
    /\ vm_idx <= NumRules
    /\ EvalCond(compiled_rules.rules[vm_idx].cond, filesize) = "trap"
    /\ ScanEnd("Err")

\* The entry function ran every rule: the call returns Ok.
VMReturn ==
    /\ pc = "vm"
    /\ vm_idx > NumRules
    /\ ScanEnd("Ok")

Next ==
    \/ \E data \in DataSet : ScanBegin(data)
    \/ RunModuleMain
    \/ EnterVM
    \/ VMEvalRule
    \/ DeadlineExpires
    \/ VMTrap
    \/ VMReturn

Spec == Init /\ [][Next]_vars

(***************************************************************************)
(* Properties of the scanner.                                              *)
(***************************************************************************)
\* The RuleIds of a bitmap's zero bits.
ZeroBits(bm) == {i \in 0..(Len(bm) - 1) : ~bm[i + 1]}

StrictlyAscending(s) == \A i, j \in 1..Len(s) : i < j => s[i] < s[j]

\* C1: in every state a caller can observe (after Scanner::new, after a scan that
\* returned, after a scan that panicked) the bitmap has one bit per rule, the
\* match list has as many entries as the bitmap has set bits, the match list has
\* no duplicates, and a RuleId is in the match list iff its bit is set.
C1_BitmapAgreesWithMatching ==
    pc \in {"idle", "panicked"} =>
        /\ Len(rules_matching_bitmap) = NumRules
        /\ Len(rules_matching) = PopCount(rules_matching_bitmap)
        /\ NoDuplicates(rules_matching)
        /\ \A i \in 0..(NumRules - 1) :
               (i \in Range(rules_matching)) <=> rules_matching_bitmap[i + 1]

\* A second scan has returned, with matching and non-matching rules.
C1_Witness ==
    /\ pc = "idle"
    /\ view
    /\ Len(history) = 2
    /\ Len(rules_matching) >= 1
    /\ PopCount(rules_matching_bitmap) < NumRules

\* C2: for every results view, over any number of rules, the rules iter() yields
\* and the rules iter_non_matches() yields are disjoint, together they are the
\* RuleIds [0, N), and iter_non_matches() yields no rule of rules_matching.
C2_IteratorsPartitionRules ==
    view =>
        LET m == Range(Ids(IterMatches))
            n == Range(Ids(IterNonMatches))
        IN  /\ m \cap n = {}
            /\ m \cup n = 0..(NumRules - 1)
            /\ n \cap Range(rules_matching) = {}

\* A view whose two iterators both yield something.
C2_Witness ==
    /\ view
    /\ Len(IterMatches) >= 1
    /\ Len(IterNonMatches) >= 1

\* C3: two scans in a row that ran to completion on the same buffer give the
\* same match list, in the same order, whatever the scanner did before.
C3_SameScanSameMatches ==
    (/\ Len(history) = 2
     /\ history[1].clean
     /\ history[2].clean
     /\ history[1].data = history[2].data)
        => history[1].matching = history[2].matching

\* Two completed scans in a row of the same buffer, with matches.
C3_Witness ==
    /\ Len(history) = 2
    /\ history[1].clean
    /\ history[2].clean
    /\ history[1].data = history[2].data
    /\ history[2].matching # << >>

\* C4: outside the window between scan() entry and scan() exit (after
\* Scanner::new, after a scan that returned, after a scan whose entry function
\* trapped) the data pointer is null and the data length is 0.
C4_DataPointerNullOutsideScan ==
    pc \in {"idle", "panicked"} => (scanned_data = NULL /\ scanned_data_len = 0)

\* C5: a trap of the entry function reaches the caller of scan() as a ScanError
\* value, and a scan that completes right after a trapped one gives the match
\* list a fresh scanner gives.
C5_TrapSurfacesAsScanError ==
    /\ trapped => scan_result = "ScanError"
    /\ (Len(history) = 2 /\ ~history[1].clean /\ history[2].clean) =>
           history[2].matching =
               FullMatchList(compiled_rules.rules, Len(history[2].data), 1)

\* C6: a results view exists only when the entry function of the scan that wrote
\* the match list and the bitmap ran to clean completion: what the view shows is
\* the complete result of that scan, never what a trapped run left behind.
C6_ViewOnlyOnCleanCompletion ==
    view =>
        /\ ~trapped
        /\ scan_result = "ScanResults"
        /\ history # << >>
        /\ history[Len(history)].clean
        /\ rules_matching = FullMatchList(compiled_rules.rules, filesize, 1)
        /\ \A i \in 0..(NumRules - 1) :
               rules_matching_bitmap[i + 1] <=> (i \in Range(rules_matching))

\* A view, held after a scan that trapped with matches already recorded.
C6_Witness ==
    /\ view
    /\ Len(history) = 2
    /\ ~history[1].clean
    /\ history[1].matching # << >>

\* C7: the string pool is empty when the first module main of a scan runs: no
\* string interned during the previous scan is in it.
C7_PoolEmptyAtFirstModule ==
    (pc = "modules" /\ mod_idx = 1) => string_pool = << >>

\* A scan is about to run its first module main, and the previous scan
\* left strings in the pool.
C7_Witness ==
    /\ pc = "modules"
    /\ mod_idx = 1
    /\ compiled_rules.imported_modules # << >>
    /\ pool_prev # << >>

\* C8: matching_rules() is the length of rules_matching; iter() yields the rules
\* of rules_matching, once each, in recorded order; iter_non_matches() yields
\* the rules whose bit is 0, in strictly ascending RuleId order; both end after
\* at most N items.
C8_IteratorsFollowContext ==
    view =>
        /\ matching_rules = Len(rules_matching)
        /\ Len(IterMatches) = Len(rules_matching)
        /\ \A k \in 1..Len(rules_matching) :
               IterMatches[k] = compiled_rules.rules[rules_matching[k] + 1]
        /\ Ids(IterMatches) = rules_matching
        /\ StrictlyAscending(Ids(IterNonMatches))
        /\ Range(Ids(IterNonMatches)) = ZeroBits(rules_matching_bitmap)
        /\ Len(IterMatches) <= NumRules
        /\ Len(IterNonMatches) <= NumRules

\* A view over two matching rules.
C8_Witness ==
    /\ view
    /\ Len(rules_matching) = 2

\* C9: a scan during which the host's deadline expired ends with ScanTimeout.
C9_DeadlineYieldsScanTimeout ==
    (deadline_expired /\ pc \in {"idle", "panicked"}) => scan_result = "ScanTimeout"

(***************************************************************************)
(* 32-bit unsigned numbers.  A u32 is the pair <<high 16 bits, low 16      *)
(* bits>>: the reserved sector numbers do not fit the checker's integers.  *)
(***************************************************************************)
U32(n) == <<n \div 65536, n % 65536>>

U32Lt(a, b) == a[1] < b[1] \/ (a[1] = b[1] /\ a[2] < b[2])

U32Gt(a, b) == U32Lt(b, a)

(***************************************************************************)
(* The OLECF parser: constants.                                            *)
(***************************************************************************)
OLECF_SIGNATURE == <<208, 207, 17, 224, 161, 177, 26, 225>>

SECTOR_SHIFT == 9

MINI_SECTOR_SHIFT == 6

DIRECTORY_ENTRY_SIZE == 128

STORAGE_TYPE == 1

STREAM_TYPE == 2

ROOT_STORAGE_TYPE == 5

\* 0xFFFFFFFE
ENDOFCHAIN == <<65535, 65534>>

\* 0xFFFFFFFA
MAX_REGULAR_SECTOR == <<65535, 65530>>

\* sector_size: 1 << SECTOR_SHIFT
sector_size == 2 ^ SECTOR_SHIFT

\* mini_sector_size: 1 << MINI_SECTOR_SHIFT
mini_sector_size == 2 ^ MINI_SECTOR_SHIFT

(***************************************************************************)
(* Input buffers.  A buffer is a 512-byte header followed by `nsec` whole  *)
(* sectors, with the last `cut` bytes removed.  The header holds the       *)
(* signature, the byte-order mark, num_fat_sectors, first_dir_sector,      *)
(* first_mini_fat, mini_fat_count and the DIFAT slots (`difat`, then       *)
(* 0xFFFFFFFF) at their offsets.  Sector `fatloc` holds the FAT entries    *)
(* `fat` and then 0xFFFFFFFF, sector `minifatloc` the mini-FAT entries     *)
(* `minifat` likewise, sector `dirloc` the directory entries `dir`; every  *)
(* other byte is 0.  Numbers are stored little-endian, byte by byte.       *)
(***************************************************************************)
FatValues == {U32(0), U32(1), U32(2), U32(130), MAX_REGULAR_SECTOR, ENDOFCHAIN}

\* No sector of the buffer has this role.
NoSector == 0 - 1

Images ==
    [nsec : {1, 3},
     cut : {0},
     signature : {OLECF_SIGNATURE},
     byte_order : {65534},
     num_fat_sectors : {U32(1)},
     first_dir_sector : {ENDOFCHAIN},
     first_mini_fat : {ENDOFCHAIN},
     mini_fat_count : {U32(0)},
     fatloc : {0},
     difat : {<< >>, <<U32(0)>>, <<U32(1)>>, <<U32(0), U32(0)>>},
     fat : [1..MaxFatEntries -> FatValues],
     minifatloc : {NoSector},
     minifat : {<< >>},
     dirloc : {NoSector},
     dir : {<< >>}]

StartSectors == {U32(0), U32(1), U32(2), U32(130), MAX_REGULAR_SECTOR, <<65535, 65531>>}

\* data.len()
DataLen(img) == 512 + img.nsec * 512 - img.cut

\* Byte k (0 = least significant) of the u32 `v`.
ByteOf(v, k) ==
    CASE k = 0 -> v[2] % 256
      [] k = 1 -> v[2] \div 256
      [] k = 2 -> v[1] % 256
      [] k = 3 -> v[1] \div 256

\* The u32 stored in slot `w` of a table whose first entries are `tbl`.
Slot(tbl, w) == IF w < Len(tbl) THEN tbl[w + 1] ELSE <<65535, 65535>>

\* Byte `o` of the 128 bytes of the directory entry `e`: the name in UTF-16LE at
\* 0, name_len at 64, the type at 66, start_sector at 116, the size at 120.
DirEntryByte(e, o) ==
    CASE o < 64 ->
             IF o % 2 = 0 /\ o \div 2 < Len(e.name) THEN e.name[o \div 2 + 1] ELSE 0
      [] o = 64 -> e.name_len % 256
      [] o = 65 -> e.name_len \div 256
      [] o = 66 -> e.stream_type
      [] o >= 116 /\ o < 120 -> ByteOf(e.start_sector, o - 116)
      [] o >= 120 /\ o < 124 -> ByteOf(e.size, o - 120)
      [] OTHER -> 0

\* Byte `off` of the 512-byte header.
HeaderByte(img, off) ==
    CASE off < 8 -> img.signature[off + 1]
      [] off = 28 -> img.byte_order % 256
      [] off = 29 -> img.byte_order \div 256
      [] off >= 44 /\ off < 48 -> ByteOf(img.num_fat_sectors, off - 44)
      [] off >= 48 /\ off < 52 -> ByteOf(img.first_dir_sector, off - 48)
      [] off >= 60 /\ off < 64 -> ByteOf(img.first_mini_fat, off - 60)
      [] off >= 64 /\ off < 68 -> ByteOf(img.mini_fat_count, off - 64)
      [] off >= 76 -> ByteOf(Slot(img.difat, (off - 76) \div 4), (off - 76) % 4)
      [] OTHER -> 0

\* data[off]
DataByte(img, off) ==
    IF off < 512
    THEN HeaderByte(img, off)
    ELSE LET s == (off - 512) \div 512
             o == (off - 512) % 512
         IN  CASE s = img.fatloc -> ByteOf(Slot(img.fat, o \div 4), o % 4)
               [] s = img.minifatloc /\ s # img.fatloc ->
                      ByteOf(Slot(img.minifat, o \div 4), o % 4)
               [] s = img.dirloc /\ s # img.fatloc /\ s # img.minifatloc ->
                      IF o \div 128 < Len(img.dir)
                      THEN DirEntryByte(img.dir[o \div 128 + 1], o % 128)
                      ELSE 0
               [] OTHER -> 0

Ok(v) == <<"Ok", v>>

Err == <<"Err">>

IsOk(r) == r[1] = "Ok"

\* nom's le_u16 on data[off .. off + 2]
LeU16(img, off) == DataByte(img, off) + 256 * DataByte(img, off + 1)

\* nom's le_u32 on data[off .. off + 4]
LeU32(img, off) ==
    <<DataByte(img, off + 2) + 256 * DataByte(img, off + 3),
      DataByte(img, off) + 256 * DataByte(img, off + 1)>>

\* parse_header: fold_many_m_n(0, 109, le_u32, ...) over the bytes that follow
\* the 76 bytes of header fields; a slot is kept when it names a regular sector.
DifatSectors(img) ==
    LET avail == (DataLen(img) - 76) \div 4
        n == IF avail < 109 THEN avail ELSE 109
        regular(sector) == U32Lt(sector, MAX_REGULAR_SECTOR)
    IN  SelectSeq([i \in 1..n |-> LeU32(img, 76 + 4 * (i - 1))], regular)

\* sector_to_offset.  usize is 64 bits wide; an offset of 1 GiB or more is
\* given as 1 GiB, which is beyond the end of every buffer of the model.
sector_to_offset(sector) ==
    IF sector[1] < 32
    THEN 512 + (sector[1] * 65536 + sector[2]) * sector_size
    ELSE 512 + (32 * 65536) * sector_size

\* read_sector: Ok(offset of the sector's first byte), or Err when out of bounds.
read_sector(img, sector) ==
    LET offset == sector_to_offset(sector)
    IN  IF offset + sector_size > DataLen(img) THEN Err ELSE Ok(offset)

\* parse_u32_at on a slice that starts at `base` and holds `len` bytes
parse_u32_at(img, base, len, offset) ==
    IF offset + 4 > len THEN Err ELSE Ok(LeU32(img, base + offset))

\* get_fat_entry
get_fat_entry(img, fats, sector) ==
    LET entries_per_sector == sector_size \div 4
        \* entry_index / entries_per_sector, entry_index being sector as usize
        fat_sector_index ==
            sector[1] * (65536 \div entries_per_sector) + sector[2] \div entries_per_sector
    IN  IF fat_sector_index >= Len(fats) THEN Err
        ELSE LET fat == read_sector(img, fats[fat_sector_index + 1])
             IN  IF ~IsOk(fat) THEN Err
                 ELSE parse_u32_at(img, fat[2], sector_size,
                                   (sector[2] % entries_per_sector) * 4)

\* One iteration of follow_chain's loop without the visited check.
ChainStepNoCycleGuard(img, fats, ch, cur) ==
    IF U32Gt(cur, MAX_REGULAR_SECTOR)
    THEN [chain |-> ch, current |-> cur, done |-> TRUE]
    ELSE LET n == get_fat_entry(img, fats, cur)
         IN  IF ~IsOk(n) \/ n[2] = ENDOFCHAIN
             THEN [chain |-> Append(ch, cur), current |-> cur, done |-> TRUE]
             ELSE [chain |-> Append(ch, cur), current |-> n[2], done |-> FALSE]

\* One iteration of follow_chain's loop that takes 0xFFFFFFFA for reserved.
ChainStepReservedFromMax(img, fats, ch, cur) ==
    IF ~U32Lt(cur, MAX_REGULAR_SECTOR)
    THEN [chain |-> ch, current |-> cur, done |-> TRUE]
    ELSE IF cur \in Range(ch)
    THEN [chain |-> ch, current |-> cur, done |-> TRUE]
    ELSE LET n == get_fat_entry(img, fats, cur)
         IN  IF ~IsOk(n) \/ n[2] = ENDOFCHAIN
             THEN [chain |-> Append(ch, cur), current |-> cur, done |-> TRUE]
             ELSE [chain |-> Append(ch, cur), current |-> n[2], done |-> FALSE]

\* One iteration of follow_chain's loop: the new `chain` and `current`, and
\* whether the loop was left.
ChainStep(img, fats, ch, cur) ==
    IF U32Gt(cur, MAX_REGULAR_SECTOR)
    THEN [chain |-> ch, current |-> cur, done |-> TRUE]
    ELSE IF cur \in Range(ch)
    THEN [chain |-> ch, current |-> cur, done |-> TRUE]
    ELSE LET n == get_fat_entry(img, fats, cur)
         IN  IF ~IsOk(n) \/ n[2] = ENDOFCHAIN
             THEN [chain |-> Append(ch, cur), current |-> cur, done |-> TRUE]
             ELSE [chain |-> Append(ch, cur), current |-> n[2], done |-> FALSE]

(***************************************************************************)
(* A parser over an input buffer, and calls of follow_chain on it.         *)
(***************************************************************************)
ScannerUnused == ScannerNew(<< >>, << >>)

OlecfInit ==
    /\ ScannerUnused
    /\ \E img \in Images :
           /\ image = img
           /\ fat_sectors = DifatSectors(img)
    /\ fc_pc = "idle"
    /\ fc_start = U32(0)
    /\ chain = << >>
    /\ current = U32(0)
    /\ fc_steps = 0
    /\ ParserFresh
    /\ LastErrorInit

\* follow_chain is entered: `chain` is empty, `current` is the start sector.
FollowChainBegin(start_sector) ==
    /\ fc_pc = "idle"
    /\ fc_start' = start_sector
    /\ chain' = << >>
    /\ current' = start_sector
    /\ fc_steps' = 0
    /\ fc_pc' = "loop"
    /\ UNCHANGED <<image, fat_sectors, parser_vars>>
    /\ UNCHANGED <<scan_vars, capi_vars>>

\* One iteration of the loop; leaving the loop returns `chain`.
FollowChainLoop ==
    /\ fc_pc = "loop"
    /\ LET r == ChainStep(image, fat_sectors, chain, current)
       IN  /\ chain' = r.chain
           /\ current' = r.current
           /\ fc_pc' = IF r.done THEN "done" ELSE "loop"
    /\ fc_steps' = fc_steps + 1
    /\ UNCHANGED <<image, fat_sectors, fc_start, parser_vars>>
    /\ UNCHANGED <<scan_vars, capi_vars>>

OlecfNext ==
    \/ \E start_sector \in StartSectors : FollowChainBegin(start_sector)
    \/ FollowChainLoop

SpecOlecf == OlecfInit /\ [][OlecfNext]_vars /\ WF_vars(FollowChainLoop)

(***************************************************************************)
(* Properties of follow_chain.                                             *)
(***************************************************************************)
\* The buffer's sectors are 0 .. nsec - 1: the FAT sectors the header names, the
\* start sector and every FAT entry of a sector are sectors of the buffer (or,
\* for an entry, a value above the regular sectors).
WellFormedChainInput ==
    /\ fat_sectors # << >>
    /\ \A k \in 1..Len(fat_sectors) : U32Lt(fat_sectors[k], U32(image.nsec))
    /\ U32Lt(fc_start, U32(image.nsec))
    /\ \A s \in 0..(image.nsec - 1) :
           LET e == get_fat_entry(image, fat_sectors, U32(s))
           IN  IsOk(e) /\ (U32Lt(e[2], U32(image.nsec)) \/ U32Gt(e[2], MAX_REGULAR_SECTOR))

\* Sectors whose FAT entry get_fat_entry can address: 128 per FAT sector.
AddressableEntries == (sector_size \div 4) * Len(fat_sectors)

\* C10: for every buffer, FAT content and start sector follow_chain terminates:
\* every iteration that stays in the loop has pushed a sector that was not in the
\* chain and whose FAT entry could be read, so the loop is entered at most once
\* more than there are addressable FAT entries, plus one; the chain holds no
\* sector twice (a FAT whose entry for sector 2 is 2 gives follow_chain(2) = [2]);
\* on well-formed input the loop is entered at most num_sectors + 1 times.
C10_FollowChainTerminates ==
    /\ NoDuplicates(chain)
    /\ fc_pc = "loop" => fc_steps = Len(chain)
    /\ fc_steps <= Len(chain) + 1
    /\ \A k \in 1..(Len(chain) - 1) : IsOk(get_fat_entry(image, fat_sectors, chain[k]))
    /\ fc_steps <= AddressableEntries + 2
    /\ (fc_pc = "done" /\ WellFormedChainInput) => fc_steps <= image.nsec + 1
    /\ (/\ fc_pc = "done"
        /\ fc_start = U32(2)
        /\ get_fat_entry(image, fat_sectors, U32(2)) = Ok(U32(2)))
           => chain = <<U32(2)>>

\* follow_chain(2) has returned [2] on a FAT whose entry for sector 2 is 2.
C10_Witness ==
    /\ fc_pc = "done"
    /\ fc_start = U32(2)
    /\ get_fat_entry(image, fat_sectors, U32(2)) = Ok(U32(2))
    /\ chain = <<U32(2)>>
    /\ fc_steps = 2

(***************************************************************************)
(* OLECFParser::new: parse_header, parse_directory.                        *)
(***************************************************************************)
RECURSIVE FollowChainFrom(_, _, _, _)
FollowChainFrom(img, fats, ch, cur) ==
    LET r == ChainStep(img, fats, ch, cur)
    IN  IF r.done THEN r.chain ELSE FollowChainFrom(img, fats, r.chain, r.current)

\* follow_chain, run to its end
follow_chain(img, fats, start_sector) == FollowChainFrom(img, fats, << >>, start_sector)

\* verify(take(8usize), |sig: &[u8]| sig == OLECF_SIGNATURE)
SignatureOk(sig) == sig = OLECF_SIGNATURE

\* verify(le_u16, |&order| order == 0xFFFE)
ByteOrderOk(order) == order = 65534

\* The check of first_dir_sector in parse_header, left out.
AnyFirstDirSector(sector) == TRUE

\* if first_dir_sector < MAX_REGULAR_SECTOR
FirstDirSectorOk(sector) == U32Lt(sector, MAX_REGULAR_SECTOR)

\* parse_header: Err, or Ok with the three sector lists it stored.
parse_header(img) ==
    IF DataLen(img) < 76 THEN Err
    ELSE IF ~SignatureOk([i \in 1..8 |-> DataByte(img, i - 1)]) THEN Err
    ELSE IF ~ByteOrderOk(LeU16(img, 28)) THEN Err
    ELSE LET num_fat_sectors == LeU32(img, 44)
             first_dir_sector == LeU32(img, 48)
             first_mini_fat == LeU32(img, 60)
             mini_fat_count == LeU32(img, 64)
             fats == DifatSectors(img)
         IN  IF ~FirstDirSectorOk(first_dir_sector) THEN Err
             ELSE LET dirs == follow_chain(img, fats, first_dir_sector)
                      minis == IF /\ U32Gt(mini_fat_count, U32(0))
                                  /\ U32Lt(first_mini_fat, MAX_REGULAR_SECTOR)
                               THEN follow_chain(img, fats, first_mini_fat)
                               ELSE << >>
                  IN  IF fats = << >> /\ U32Gt(num_fat_sectors, U32(0)) THEN Err
                      ELSE Ok([fat_sectors |-> fats,
                               directory_sectors |-> dirs,
                               mini_fat_sectors |-> minis])

\* String::from_utf8_lossy on one byte that is not part of a longer sequence:
\* an ASCII byte is itself, any other byte becomes U+FFFD.
Utf8Lossy(b) == IF b < 128 THEN b ELSE 65533

\* A size read from the buffer, as u64.
U64(v) == v[1] * 65536 + v[2]

\* The name length check of read_directory_entry, left out.
AnyNameLen(name_len) == TRUE

\* (2..=64).contains(&name_len)
NameLenOk(name_len) == name_len >= 2 /\ name_len <= 64

\* read_directory_entry
read_directory_entry(img, offset) ==
    IF offset + 128 > DataLen(img) THEN Err
    ELSE LET name_len == LeU16(img, offset + 64)
         IN  IF ~NameLenOk(name_len) THEN Err
             ELSE LET name_bytes == [i \in 1..name_len |-> DataByte(img, offset + i - 1)]
                      nonzero(b) == b # 0
                      filtered == SelectSeq(name_bytes, nonzero)
                  IN  Ok([name |-> [i \in 1..Len(filtered) |-> Utf8Lossy(filtered[i])],
                          size |-> U64(LeU32(img, offset + 120)),
                          start_sector |-> LeU32(img, offset + 116),
                          stream_type |-> DataByte(img, offset + 66)])

\* An insert that keeps the value a key already has.
MapKeepFirst(map, key, value) ==
    [k \in DOMAIN map \cup {key} |-> IF k \in DOMAIN map THEN map[k] ELSE value]

\* HashMap::insert
MapInsert(map, key, value) ==
    [k \in DOMAIN map \cup {key} |-> IF k = key THEN value ELSE map[k]]

\* The body of parse_directory's inner loop for the entry at `abs_offset`, on
\* the parser fields `p` (dir_entries, mini_stream_start, mini_stream_size).
\* The loop is left when the entry reaches beyond the buffer; the entries that
\* follow in the sector lie further still, so none of them changes `p`.
DirectoryEntryStep(img, p, abs_offset) ==
    IF abs_offset + DIRECTORY_ENTRY_SIZE > DataLen(img) THEN p
    ELSE LET r == read_directory_entry(img, abs_offset)
         IN  IF ~IsOk(r) THEN p
             ELSE LET entry == r[2]
                      q == IF entry.stream_type = ROOT_STORAGE_TYPE
                           THEN [p EXCEPT !.mini_stream_start = entry.start_sector,
                                          !.mini_stream_size = entry.size]
                           ELSE p
                  IN  IF entry.stream_type \in {STORAGE_TYPE, STREAM_TYPE, ROOT_STORAGE_TYPE}
                      THEN [q EXCEPT !.dir_entries = MapInsert(q.dir_entries, entry.name, entry)]
                      ELSE q

\* The offsets parse_directory visits, in order: every 128-byte entry of every
\* directory sector.
DirectoryOffsets(dirs) ==
    LET per_sector == sector_size \div DIRECTORY_ENTRY_SIZE
    IN  [k \in 1..(Len(dirs) * per_sector) |->
            sector_to_offset(dirs[(k - 1) \div per_sector + 1])
                + ((k - 1) % per_sector) * DIRECTORY_ENTRY_SIZE]

RECURSIVE DirectoryFold(_, _, _, _)
DirectoryFold(img, p, offsets, k) ==
    IF k > Len(offsets) THEN p
    ELSE DirectoryFold(img, DirectoryEntryStep(img, p, offsets[k]), offsets, k + 1)

\* parse_directory: Err, or Ok with dir_entries, mini_stream_start, mini_stream_size
parse_directory(img, dirs) ==
    IF dirs = << >> THEN Err
    ELSE Ok(DirectoryFold(img,
                          [dir_entries |-> << >>,
                           mini_stream_start |-> <<0, 0>>,
                           mini_stream_size |-> 0],
                          DirectoryOffsets(dirs), 1))

(***************************************************************************)
(* Reading streams.  A Vec<u8> filled from the buffer is the sequence of   *)
(* the slices appended to it, each slice <<offset in the buffer, length>>. *)
(***************************************************************************)
ErrMsg(msg) == <<"Err", msg>>

\* Half of the smaller of two numbers, rounded up.
MinHalved(a, b) == IF a < b THEN (a + 1) \div 2 ELSE (b + 1) \div 2

Min(a, b) == IF a < b THEN a ELSE b

\* What a loop came to, and the number of times its body was entered.
Ran(result, iterations) == [result |-> result, iterations |-> iterations]

RECURSIVE SlicesLen(_)
SlicesLen(slices) ==
    IF slices = << >> THEN 0 ELSE slices[1][2] + SlicesLen(Tail(slices))

\* get_regular_stream_data without its final length check.
RegularLengthUnchecked(slices, size) == Ok(slices)

\* if data.len() != size as usize { return Err("Incomplete stream data") }
RegularLengthCheck(slices, size) ==
    IF SlicesLen(slices) # size THEN ErrMsg("Incomplete stream data") ELSE Ok(slices)

\* The loop of get_regular_stream_data from one evaluation of its condition on,
\* n the number of times its body was entered before.
RECURSIVE RegularLoop(_, _, _, _, _, _, _)
RegularLoop(img, fats, current_sector, size, total_read, slices, n) ==
    IF ~(U32Lt(current_sector, MAX_REGULAR_SECTOR) /\ total_read < size)
    THEN Ran(RegularLengthCheck(slices, size), n)
    ELSE LET sector_data == read_sector(img, current_sector)
         IN  IF ~IsOk(sector_data) THEN Ran(ErrMsg("Sector read out of bounds"), n + 1)
             ELSE LET bytes_to_read == Min(sector_size, size - total_read)
                      data == Append(slices, <<sector_data[2], bytes_to_read>>)
                      total == total_read + bytes_to_read
                  IN  IF total < size
                      THEN LET next == get_fat_entry(img, fats, current_sector)
                           IN  IF ~IsOk(next) THEN Ran(ErrMsg("FAT lookup failed"), n + 1)
                               ELSE IF \/ next[2] = ENDOFCHAIN
                                       \/ ~U32Lt(next[2], MAX_REGULAR_SECTOR)
                               THEN Ran(RegularLengthCheck(data, size), n + 1)
                               ELSE RegularLoop(img, fats, next[2], size, total, data,
                                                n + 1)
                      ELSE RegularLoop(img, fats, current_sector, size, total, data,
                                       n + 1)

\* get_regular_stream_data: what it returns, and the iterations of its loop
get_regular_stream_data(img, fats, start_sector, size) ==
    RegularLoop(img, fats, start_sector, size, 0, << >>, 0)

\* get_minifat_entry
get_minifat_entry(img, minis, mini_sector) ==
    LET entries_per_sector == sector_size \div 4
        fat_sector_index ==
            mini_sector[1] * (65536 \div entries_per_sector)
                + mini_sector[2] \div entries_per_sector
    IN  IF minis = << >> THEN Ok(ENDOFCHAIN)
        ELSE IF fat_sector_index >= Len(minis) THEN Ok(ENDOFCHAIN)
        ELSE LET fat == read_sector(img, minis[fat_sector_index + 1])
             IN  IF ~IsOk(fat) THEN Err
                 ELSE parse_u32_at(img, fat[2], sector_size,
                                   (mini_sector[2] % entries_per_sector) * 4)

\* current as usize * self.mini_sector_size.  An offset of 1 GiB or more is given
\* as 1 GiB, which is beyond the end of every mini stream of the model.
MiniOffset(mini_sector) ==
    IF mini_sector[1] < 256
    THEN (mini_sector[1] * 65536 + mini_sector[2]) * mini_sector_size
    ELSE (256 * 65536) * mini_sector_size

\* &mini_stream_data[mini_offset .. mini_offset + n], n <= mini_sector_size: every
\* slice of the mini stream but the last holds sector_size bytes, and
\* mini_offset is a multiple of mini_sector_size, so the range lies in one slice.
MiniSlice(mini_stream_data, mini_offset, n) ==
    <<mini_stream_data[(mini_offset \div sector_size) + 1][1]
          + (mini_offset % sector_size), n>>

\* get_mini_stream_data without its final length check.
MiniLengthUnchecked(slices, size) == Ok(slices)

\* if data.len() != size as usize { return Err("Incomplete mini stream data") }
MiniLengthCheck(slices, size) ==
    IF SlicesLen(slices) # size THEN ErrMsg("Incomplete mini stream data") ELSE Ok(slices)

\* The loop of get_mini_stream_data from one evaluation of its condition on,
\* n the number of times its body was entered before.
RECURSIVE MiniLoop(_, _, _, _, _, _, _)
MiniLoop(img, minis, mini_stream_data, cur, size, slices, n) ==
    LET mini_data_len == SlicesLen(mini_stream_data)
        len == SlicesLen(slices)
    IN  IF ~(U32Lt(cur, MAX_REGULAR_SECTOR) /\ len < size)
        THEN Ran(MiniLengthCheck(slices, size), n)
        ELSE LET mini_offset == MiniOffset(cur)
                 bytes_to_read == Min(mini_sector_size, size - len)
             IN  IF mini_offset >= mini_data_len
                 THEN Ran(ErrMsg("Mini stream offset out of range"), n + 1)
                 ELSE IF mini_offset + bytes_to_read > mini_data_len
                 THEN Ran(ErrMsg("Mini stream extends beyond available data"), n + 1)
                 ELSE LET data == Append(slices,
                                         MiniSlice(mini_stream_data, mini_offset,
                                                   bytes_to_read))
                      IN  IF len + bytes_to_read < size
                          THEN LET next == get_minifat_entry(img, minis, cur)
                               IN  IF ~IsOk(next)
                                   THEN Ran(ErrMsg("mini-FAT lookup failed"), n + 1)
                                   ELSE IF \/ next[2] = ENDOFCHAIN
                                           \/ ~U32Lt(next[2], MAX_REGULAR_SECTOR)
                                   THEN Ran(MiniLengthCheck(data, size), n + 1)
                                   ELSE MiniLoop(img, minis, mini_stream_data,
                                                 next[2], size, data, n + 1)
                          ELSE MiniLoop(img, minis, mini_stream_data, cur, size, data,
                                        n + 1)

\* get_root_mini_stream_data
get_root_mini_stream_data(img, fats, ms_start, ms_size) ==
    get_regular_stream_data(img, fats, ms_start, ms_size)

\* get_mini_stream_data: what it returns, the iterations of its loop and those of
\* the read of the root's mini stream
get_mini_stream_data(img, fats, minis, ms_start, ms_size, start_mini_sector, size) ==
    IF ms_size = 0
    THEN [result |-> ErrMsg("No mini stream present"), iterations |-> 0,
          root_iterations |-> 0]
    ELSE LET root == get_root_mini_stream_data(img, fats, ms_start, ms_size)
             mini_stream_data == root.result
         IN  IF ~IsOk(mini_stream_data)
             THEN [result |-> mini_stream_data, iterations |-> 0,
                   root_iterations |-> root.iterations]
             ELSE LET run == MiniLoop(img, minis, mini_stream_data[2],
                                      start_mini_sector, size, << >>, 0)
                  IN  [result |-> run.result, iterations |-> run.iterations,
                       root_iterations |-> root.iterations]

\* The reader get_stream_data picks when it looks at the size only.
StreamPathBySizeOnly(entry) == IF entry.size < 4096 THEN "mini" ELSE "regular"

\* get_stream_data: if entry.size < 4096 && entry.stream_type != ROOT_STORAGE_TYPE
StreamPath(entry) ==
    IF entry.size < 4096 /\ entry.stream_type # ROOT_STORAGE_TYPE
    THEN "mini" ELSE "regular"

(***************************************************************************)
(* Buffers for OLECFParser::new and get_stream_data.  Sector 0 is the FAT, *)
(* sector 1 the directory, sector 2 the mini-FAT, sector 3 the mini        *)
(* stream, sectors 4 to 11 a stream of 4096 bytes.                         *)
(***************************************************************************)
MaxDirEntries == 2

\* 0xFFFFFFFD
FATSECT == <<65535, 65533>>

\* The FAT of a well-formed buffer: sectors 4 to 11 are one chain.
FatWhole ==
    <<FATSECT, ENDOFCHAIN, ENDOFCHAIN, ENDOFCHAIN, U32(5), U32(6), U32(7), U32(8),
      U32(9), U32(10), U32(11), ENDOFCHAIN>>

\* The chain of sector 4 ends after two sectors.
FatShort == <<FATSECT, ENDOFCHAIN, ENDOFCHAIN, ENDOFCHAIN, U32(5), ENDOFCHAIN>>

\* The chain of sector 4 is the cycle 4, 5, 4, ...; the mini stream has two sectors.
FatCycle == <<FATSECT, ENDOFCHAIN, ENDOFCHAIN, U32(4), U32(5), U32(4)>>

\* The FAT entry of the directory's sector 1 is 0xFFFFFFFA, that of the
\* mini-FAT's sector 2 is 0xFFFFFFFB.
FatReservedLink == <<FATSECT, MAX_REGULAR_SECTOR, <<65535, 65531>>, ENDOFCHAIN>>

BadSignature == <<208, 207, 17, 224, 161, 177, 26, 224>>

Entry(name, name_len, stream_type, start_sector, size) ==
    [name |-> name, name_len |-> name_len, stream_type |-> stream_type,
     start_sector |-> U32(start_sector), size |-> U32(size)]

\* "R", "A", "C", "B", "S", "U" in UTF-16 code units, with the terminator counted in
\* name_len as the format has it.
EntryChoices ==
    {Entry(<<82>>, 4, 5, 3, 512),      \* root storage, a mini stream of 8 mini sectors
     Entry(<<82>>, 4, 5, 3, 1024),     \* root storage, a mini stream of 16 mini sectors
     Entry(<<82>>, 4, 5, 3, 0),        \* root storage without a mini stream
     Entry(<<65>>, 4, 2, 0, 100),      \* stream of 100 bytes, mini sectors 0, 1
     Entry(<<65>>, 4, 2, 8, 64),       \* stream of 64 bytes, mini sector 8
     Entry(<<65>>, 4, 2, 4, 4095),     \* stream of 4095 bytes
     Entry(<<67>>, 4, 2, 0, 600),      \* stream of 600 bytes from mini sector 0
     Entry(<<66>>, 4, 2, 4, 4096),     \* stream of 4096 bytes, sectors 4 to 11
     Entry(<<66>>, 4, 2, 4, 0),        \* empty stream
     Entry(<<83>>, 4, 1, 0, 0),        \* storage
     Entry(<<85>>, 4, 0, 0, 0),        \* unused entry
     Entry(<<90>>, 0, 2, 4, 4096),     \* name_len 0
     Entry(<<90>>, 1, 5, 4, 64),       \* name_len 1, typed as root storage
     Entry(<<90>>, 65, 2, 4, 4096),    \* name_len 65
     Entry(<<90, 128>>, 64, 2, 0, 64)} \* name_len 64, a byte that is not UTF-8

\* Buffers that differ in their header fields.
HeaderImages ==
    [nsec : {12}, cut : {0},
     signature : {OLECF_SIGNATURE, BadSignature},
     byte_order : {65534, 65279},
     num_fat_sectors : {U32(0), U32(1)},
     first_dir_sector : {U32(1), U32(200), <<65535, 65529>>, MAX_REGULAR_SECTOR,
                         ENDOFCHAIN},
     first_mini_fat : {U32(2)},
     mini_fat_count : {U32(1)},
     fatloc : {0},
     difat : {<< >>, <<U32(0)>>, <<U32(50)>>, <<MAX_REGULAR_SECTOR, U32(0)>>},
     fat : {FatWhole, FatReservedLink},
     minifatloc : {2},
     minifat : {<<U32(1), ENDOFCHAIN>>},
     dirloc : {1},
     dir : {<<Entry(<<82>>, 4, 5, 3, 512), Entry(<<65>>, 4, 2, 0, 100)>>}]

\* Buffers too short for a header, or for the sectors their header names.
ShortImages ==
    [nsec : {0, 1}, cut : {0, 508},
     signature : {OLECF_SIGNATURE},
     byte_order : {65534},
     num_fat_sectors : {U32(1)},
     first_dir_sector : {U32(1)},
     first_mini_fat : {U32(2)},
     mini_fat_count : {U32(1)},
     fatloc : {0},
     difat : {<<U32(0)>>},
     fat : {FatWhole},
     minifatloc : {2},
     minifat : {<<U32(1), ENDOFCHAIN>>},
     dirloc : {1},
     dir : {<< >>}]

\* The FAT, the mini-FAT and the header's mini_fat_count of a buffer.
TableChoices ==
    {[fat |-> FatWhole, minifat |-> <<U32(1), ENDOFCHAIN>>, mini_fat_count |-> U32(1)],
     [fat |-> FatShort, minifat |-> <<U32(1), ENDOFCHAIN>>, mini_fat_count |-> U32(1)],
     [fat |-> FatCycle, minifat |-> <<U32(0)>>, mini_fat_count |-> U32(1)],
     [fat |-> FatWhole, minifat |-> <<U32(1), ENDOFCHAIN>>, mini_fat_count |-> U32(0)]}

\* Buffers with a good header that differ in their tables and directory.
DirectoryImages ==
    {[nsec |-> 12, cut |-> 0,
      signature |-> OLECF_SIGNATURE,
      byte_order |-> 65534,
      num_fat_sectors |-> U32(1),
      first_dir_sector |-> U32(1),
      first_mini_fat |-> U32(2),
      mini_fat_count |-> t.mini_fat_count,
      fatloc |-> 0,
      difat |-> <<U32(0)>>,
      fat |-> t.fat,
      minifatloc |-> 2,
      minifat |-> t.minifat,
      dirloc |-> 1,
      dir |-> d] : t \in TableChoices, d \in [1..MaxDirEntries -> EntryChoices]}

ParserImages == HeaderImages \cup ShortImages \cup DirectoryImages

\* A name no directory entry has ("X").
MissingName == <<88>>

(***************************************************************************)
(* OLECFParser::new on a buffer, then get_stream_data on the parser.       *)
(***************************************************************************)
ParserInit ==
    /\ ScannerUnused
    /\ LastErrorInit
    /\ image \in ParserImages
    /\ fat_sectors = << >>
    /\ fc_pc = "idle"
    /\ fc_start = <<0, 0>>
    /\ chain = << >>
    /\ current = <<0, 0>>
    /\ fc_steps = 0
    /\ ParserFresh

\* parse(): parse_header.  An error makes new() return Err: no parser exists.
ParseHeader ==
    /\ p_pc = "new"
    /\ \E r \in {parse_header(image)} :
           IF IsOk(r)
           THEN /\ fat_sectors' = r[2].fat_sectors
                /\ directory_sectors' = r[2].directory_sectors
                /\ mini_fat_sectors' = r[2].mini_fat_sectors
                /\ p_pc' = "header"
           ELSE /\ p_pc' = "failed"
                /\ UNCHANGED <<fat_sectors, directory_sectors, mini_fat_sectors>>
    /\ UNCHANGED <<image, fc_pc, fc_start, chain, current, fc_steps, dir_entries,
                   mini_stream_start, mini_stream_size, read>>
    /\ UNCHANGED <<scan_vars, capi_vars>>

\* parse(): parse_directory; new() returns Ok(parser) when it succeeds.
ParseDirectory ==
    /\ p_pc = "header"
    /\ \E r \in {parse_directory(image, directory_sectors)} :
           IF IsOk(r)
           THEN /\ dir_entries' = r[2].dir_entries
                /\ mini_stream_start' = r[2].mini_stream_start
                /\ mini_stream_size' = r[2].mini_stream_size
                /\ p_pc' = "ready"
           ELSE /\ p_pc' = "failed"
                /\ UNCHANGED <<dir_entries, mini_stream_start, mini_stream_size>>
    /\ UNCHANGED <<image, fat_sectors, fc_pc, fc_start, chain, current, fc_steps,
                   directory_sectors, mini_fat_sectors, read>>
    /\ UNCHANGED <<scan_vars, capi_vars>>

\* get_stream_data(stream_name) on the parser new() returned.
GetStreamData(stream_name) ==
    /\ p_pc = "ready"
    /\ read' =
           IF stream_name \notin DOMAIN dir_entries
           THEN [name |-> stream_name, path |-> "none",
                 result |-> ErrMsg("Stream not found"), iterations |-> 0,
                 root_iterations |-> 0]
           ELSE LET entry == dir_entries[stream_name]
                IN  IF StreamPath(entry) = "mini"
                    THEN LET run == get_mini_stream_data(image, fat_sectors,
                                        mini_fat_sectors, mini_stream_start,
                                        mini_stream_size, entry.start_sector,
                                        entry.size)
                         IN  [name |-> stream_name, path |-> "mini",
                              result |-> run.result, iterations |-> run.iterations,
                              root_iterations |-> run.root_iterations]
                    ELSE LET run == get_regular_stream_data(image, fat_sectors,
                                        entry.start_sector, entry.size)
                         IN  [name |-> stream_name, path |-> "regular",
                              result |-> run.result, iterations |-> run.iterations,
                              root_iterations |-> 0]
    /\ UNCHANGED <<image, fat_sectors, fc_pc, fc_start, chain, current, fc_steps,
                   p_pc, directory_sectors, mini_fat_sectors, dir_entries,
                   mini_stream_start, mini_stream_size>>
    /\ UNCHANGED <<scan_vars, capi_vars>>

ParserNext ==
    \/ ParseHeader
    \/ ParseDirectory
    \/ \E stream_name \in DOMAIN dir_entries \cup {MissingName} :
           GetStreamData(stream_name)

SpecParser == ParserInit /\ [][ParserNext]_vars

(***************************************************************************)
(* Properties of OLECFParser::new.                                         *)
(***************************************************************************)
\* new() has returned.
NewReturned == p_pc \in {"ready", "failed"}

\* A FAT lookup made while the directory chain was followed failed: the entry
\* of the chain's last sector cannot be read.
DirectoryChainLookupFails ==
    /\ directory_sectors # << >>
    /\ ~IsOk(get_fat_entry(image, fat_sectors,
                           directory_sectors[Len(directory_sectors)]))

\* No DIFAT slot of the header names a regular sector.
NoFatSectorListed == \A i \in 1..Len(image.difat) : ~U32Lt(image.difat[i], MAX_REGULAR_SECTOR)

\* C11 as stated: new() returns an error when the signature or the byte-order
\* mark is wrong, when the directory chain's first sector is reserved, and when
\* a FAT lookup needed to follow the directory chain fails; so a parser that
\* was returned has none of these.
C11_NewRejectsUnfollowableChain ==
    p_pc = "ready" =>
        /\ image.signature = OLECF_SIGNATURE
        /\ image.byte_order = 65534
        /\ U32Lt(image.first_dir_sector, MAX_REGULAR_SECTOR)
        /\ ~DirectoryChainLookupFails

\* C11, amended: new() returns an error exactly when the buffer is shorter than
\* the 76 bytes of header fields, the signature or the byte-order mark is wrong,
\* first_dir_sector is 0xFFFFFFFA or more, or no FAT sector is listed while
\* num_fat_sectors is positive.  A FAT lookup that fails while the directory
\* chain is followed ends the chain, which then still holds its first sector.
C11_NewRejectsBadHeader ==
    NewReturned =>
        /\ p_pc = "failed" <=>
               \/ DataLen(image) < 76
               \/ image.signature # OLECF_SIGNATURE
               \/ image.byte_order # 65534
               \/ ~U32Lt(image.first_dir_sector, MAX_REGULAR_SECTOR)
               \/ (NoFatSectorListed /\ image.num_fat_sectors # U32(0))
        /\ p_pc = "ready" => directory_sectors[1] = image.first_dir_sector

\* new() returned an error for a buffer whose only fault is a first directory
\* sector of 0xFFFFFFFA.
C11_Witness ==
    /\ p_pc = "failed"
    /\ image.signature = OLECF_SIGNATURE
    /\ image.byte_order = 65534
    /\ image.first_dir_sector = MAX_REGULAR_SECTOR
    /\ image.difat # << >>

(***************************************************************************)
(* Properties of get_stream_data.                                          *)
(***************************************************************************)
\* get_stream_data found the entry and ran one of the two readers.
ReadRan == read.path \in {"mini", "regular"}

\* The entry the last get_stream_data call looked up.
ReadEntry == dir_entries[read.name]

\* The bytes of every slice are bytes of the buffer.
SlicesInBuffer(slices) ==
    \A i \in 1..Len(slices) :
        /\ slices[i][1] >= 0
        /\ slices[i][2] > 0
        /\ slices[i][1] + slices[i][2] <= DataLen(image)

\* C12: get_stream_data returns Ok(bytes) only with as many bytes as the entry's
\* size says, all of them bytes of the buffer; a stream whose chain or data ends
\* before that yields an error, never a shorter or longer buffer.
C12_OkOnlyWithExactSize ==
    (ReadRan /\ IsOk(read.result)) =>
        /\ SlicesLen(read.result[2]) = ReadEntry.size
        /\ SlicesInBuffer(read.result[2])

\* A stream of 4096 bytes whose chain ends after two sectors was read: the
\* result is the incomplete-stream error.
C12_Witness ==
    /\ ReadRan
    /\ ReadEntry.size = 4096
    /\ image.fat = FatShort
    /\ read.result = ErrMsg("Incomplete stream data")

\* The sector whose first byte is at offset `off` of the buffer.
SectorAt(off) == (off - 512) \div sector_size

\* The slices are whole 512-byte sectors (the last one may be shorter), the
\* first is sector `start_sector`, and each next one is the sector the FAT names
\* for the one before it.
ReadThroughFat(slices, start_sector) ==
    /\ slices # << >> => slices[1][1] = 512 + U64(start_sector) * 512
    /\ \A i \in 1..Len(slices) :
           /\ (slices[i][1] - 512) % 512 = 0
           /\ slices[i][2] <= 512
           /\ i < Len(slices) =>
                  /\ slices[i][2] = 512
                  /\ U32(SectorAt(slices[i + 1][1])) = Slot(image.fat, SectorAt(slices[i][1]))

\* The mini sector a slice of a mini stream read starts at: its place in the
\* buffer `mini_stream` read through the FAT from the root storage's start.
MiniSectorOf(slice, mini_stream) ==
    CHOOSE m \in 0..(SlicesLen(mini_stream) \div 64) :
        \E r \in 1..Len(mini_stream) :
            /\ m \div 8 = r - 1
            /\ slice[1] = mini_stream[r][1] + (m % 8) * 64

\* The slices are 64-byte mini sectors (the last one may be shorter) of the
\* buffer `mini_stream`, the first is mini sector `start_mini_sector`, and each
\* next one is the mini sector the mini-FAT names for the one before it.
ReadThroughMiniFat(slices, start_mini_sector, mini_stream) ==
    /\ ReadThroughFat(mini_stream, mini_stream_start)
    /\ \A i \in 1..Len(slices) :
           /\ slices[i][2] <= 64
           /\ \E r \in 1..Len(mini_stream) :
                  /\ slices[i][1] >= mini_stream[r][1]
                  /\ slices[i][1] + slices[i][2] <= mini_stream[r][1] + mini_stream[r][2]
                  /\ (slices[i][1] - mini_stream[r][1]) % 64 = 0
    /\ slices # << >> =>
           U32(MiniSectorOf(slices[1], mini_stream)) = start_mini_sector
    /\ \A i \in 1..(Len(slices) - 1) :
           /\ slices[i][2] = 64
           /\ U32(MiniSectorOf(slices[i + 1], mini_stream)) =
                  Slot(image.minifat, MiniSectorOf(slices[i], mini_stream))

\* C13: get_stream_data reads through the mini stream exactly when the entry's
\* size is below 4096 and the entry is not the root storage; what it then
\* returns are 64-byte mini sectors, chained by the mini-FAT, of the buffer read
\* from the root storage's chain.  Every other entry is read through the FAT in
\* 512-byte sectors.
C13_MiniStreamBelowCutoff ==
    ReadRan =>
        /\ read.path = "mini" <=>
               (ReadEntry.size < 4096 /\ ReadEntry.stream_type # ROOT_STORAGE_TYPE)
        /\ (read.path = "regular" /\ IsOk(read.result)) =>
               ReadThroughFat(read.result[2], ReadEntry.start_sector)
        /\ (read.path = "mini" /\ IsOk(read.result)) =>
               ReadThroughMiniFat(read.result[2], ReadEntry.start_sector,
                                  get_regular_stream_data(image, fat_sectors,
                                      mini_stream_start, mini_stream_size).result[2])

\* A stream of 100 bytes was read from the mini sectors 0 and 1.
C13_Witness ==
    /\ read.path = "mini"
    /\ IsOk(read.result)
    /\ ReadEntry.size = 100
    /\ Len(read.result[2]) = 2

(***************************************************************************)
(* Properties of parse_directory.                                          *)
(***************************************************************************)
\* The name read_directory_entry gives an entry of the buffer whose name_len
\* covers its name: one byte per UTF-16 unit, the zero bytes dropped.
SurfacedName(e) == [i \in 1..Len(e.name) |-> IF e.name[i] < 128 THEN e.name[i] ELSE 65533]

\* What parse_directory leaves behind when it has seen the entries `entries`
\* of the buffer, in this order, none of them with a rejected name_len.
RECURSIVE DirectoryOf(_, _, _)
DirectoryOf(entries, k, p) ==
    IF k > Len(entries) THEN p
    ELSE LET e == entries[k]
             entry == [name |-> SurfacedName(e), size |-> U64(e.size),
                       start_sector |-> e.start_sector, stream_type |-> e.stream_type]
             q == IF e.stream_type = 5
                  THEN [p EXCEPT !.mini_stream_start = e.start_sector,
                                 !.mini_stream_size = U64(e.size)]
                  ELSE p
         IN  DirectoryOf(entries, k + 1,
                         IF e.stream_type \in {1, 2, 5}
                         THEN [q EXCEPT !.dir_entries = MapInsert(q.dir_entries, entry.name, entry)]
                         ELSE q)

NameLenInRange(e) == e.name_len >= 2 /\ e.name_len <= 64

\* C14: a directory entry with name_len outside [2, 64] is rejected and parsing
\* goes on with the next entry: the name-to-entry map and the mini stream's
\* start and size are what the other entries of the directory give, in their
\* order, as if the rejected entries were not there.
C14_BadNameLenRejected ==
    (p_pc = "ready" /\ directory_sectors = <<U32(image.dirloc)>>) =>
        LET expected == DirectoryOf(SelectSeq(image.dir, NameLenInRange), 1,
                                    [dir_entries |-> << >>,
                                     mini_stream_start |-> <<0, 0>>,
                                     mini_stream_size |-> 0])
        IN  /\ DOMAIN dir_entries = DOMAIN expected.dir_entries
            /\ \A n \in DOMAIN dir_entries : dir_entries[n] = expected.dir_entries[n]
            /\ mini_stream_start = expected.mini_stream_start
            /\ mini_stream_size = expected.mini_stream_size

\* The directory's first entry has name_len 1 and the root storage type, its
\* second entry is a stream: the stream is in the map, no mini stream was set.
C14_Witness ==
    /\ p_pc = "ready"
    /\ directory_sectors = <<U32(image.dirloc)>>
    /\ Len(image.dir) >= 2
    /\ image.dir[1].name_len = 1
    /\ image.dir[1].stream_type = 5
    /\ image.dir[2].stream_type = 2
    /\ image.dir[2].name_len = 4
    /\ DOMAIN dir_entries = {SurfacedName(image.dir[2])}
    /\ mini_stream_size = 0

(***************************************************************************)
(* Properties of follow_chain: what the chain holds.                       *)
(***************************************************************************)
\* The FAT entry of sector s as the buffer has it: the little-endian u32 at
\* byte (s mod 128) * 4 of the FAT sector number floor(s / 128) of fat_sectors,
\* a sector t beginning at byte 512 + t * 512; <<"none">> when fat_sectors has
\* no such sector or the buffer ends before the sector does.
FatEntryInBuffer(s) ==
    LET k == s[1] * 512 + s[2] \div 128
    IN  IF k >= Len(fat_sectors) THEN <<"none">>
        ELSE LET t == fat_sectors[k + 1]
             IN  IF t[1] > 0 \/ 512 + t[2] * 512 + 512 > DataLen(image) THEN <<"none">>
                 ELSE LET at == 512 + t[2] * 512 + (s[2] % 128) * 4
                      IN  <<"entry",
                            <<DataByte(image, at + 2) + 256 * DataByte(image, at + 3),
                              DataByte(image, at) + 256 * DataByte(image, at + 1)>>>>

\* The walk goes on from sector s, the chain so far being `seen`.
WalkGoesOn(s, seen) ==
    /\ FatEntryInBuffer(s)[1] = "entry"
    /\ FatEntryInBuffer(s)[2] # ENDOFCHAIN
    /\ ~U32Gt(FatEntryInBuffer(s)[2], MAX_REGULAR_SECTOR)
    /\ FatEntryInBuffer(s)[2] \notin seen

\* C20: the chain follow_chain(start) builds begins with start, each next
\* element is the FAT entry of the one before it, read little-endian from the
\* FAT sector and byte offset the sector number gives; the walk goes past an
\* element exactly when its FAT entry can be read, is not end-of-chain, is not
\* above 0xFFFFFFFA and is not in the chain yet; a start above 0xFFFFFFFA gives
\* the empty chain, a start whose FAT entry is end-of-chain a chain of length 1.
C20_ChainIsFatWalk ==
    fc_pc \in {"loop", "done"} =>
        /\ U32Gt(fc_start, MAX_REGULAR_SECTOR) => chain = << >>
        /\ chain # << >> => chain[1] = fc_start
        /\ \A i \in 1..(Len(chain) - 1) :
               /\ WalkGoesOn(chain[i], {chain[j] : j \in 1..i})
               /\ chain[i + 1] = FatEntryInBuffer(chain[i])[2]
        /\ fc_pc = "done" =>
               /\ ~U32Gt(fc_start, MAX_REGULAR_SECTOR) => chain # << >>
               /\ chain # << >> => ~WalkGoesOn(chain[Len(chain)], Range(chain))
               /\ (/\ ~U32Gt(fc_start, MAX_REGULAR_SECTOR)
                   /\ FatEntryInBuffer(fc_start) = <<"entry", ENDOFCHAIN>>)
                      => chain = <<fc_start>>

\* follow_chain returned a chain of three sectors.
C20_Witness ==
    /\ fc_pc = "done"
    /\ Len(chain) = 3
    /\ FatEntryInBuffer(chain[3]) = <<"entry", ENDOFCHAIN>>

(***************************************************************************)
(* The C API: the functions that return a YRX_RESULT, and yrx_last_error.  *)
(* A call is made by one thread; LAST_ERROR is that thread's own value.    *)
(***************************************************************************)
MaxCalls == 3

\* What the library call inside an API function returned: Ok, or Err with the
\* text err.to_string() gives.
CallOutcomes == {<<"Ok">>, <<"Err", "e1">>, <<"Err", "e2">>}

\* A pointer argument: null, or a pointer to an object.
Pointers == {"null", "object"}

\* LAST_ERROR.set(value) in a program where the value is one for all threads.
LastErrorSetForAll(le, t, value) == [u \in DOMAIN le |-> value]

\* LAST_ERROR.set(value), run by thread t
LastErrorSet(le, t, value) == [le EXCEPT ![t] = value]

\* Some(CString::new(err.to_string()).unwrap())
SomeMessage(text) == <<text>>

\* A successful call that leaves LAST_ERROR as it is.
KeepLastError(le, t) == le

\* LAST_ERROR.set(None)
ClearLastError(le, t) == LastErrorSet(le, t, NULL)

CapiInit ==
    /\ ScannerUnused
    /\ OlecfUnused
    /\ LastErrorInit

\* The bookkeeping of a call of `fn` by thread t that returned `result` and
\* produced the error message `message` (NULL: none).
Called(t, fn, result, message) ==
    /\ calls[t] < MaxCalls
    /\ calls' = [calls EXCEPT ![t] = calls[t] + 1]
    /\ last_call' = [last_call EXCEPT ![t] = [fn |-> fn, result |-> result,
                                              message |-> message,
                                              before |-> LAST_ERROR[t]]]
    /\ observed' = [observed EXCEPT ![t] = <<"none", NULL>>]
    /\ UNCHANGED <<scan_vars, olecf_vars>>

\* yrx_compile
yrx_compile(t, outcome) ==
    IF outcome[1] = "Ok"
    THEN /\ LAST_ERROR' = ClearLastError(LAST_ERROR, t)
         /\ Called(t, "yrx_compile", "SUCCESS", NULL)
    ELSE /\ LAST_ERROR' = LastErrorSet(LAST_ERROR, t, SomeMessage(outcome[2]))
         /\ Called(t, "yrx_compile", "SYNTAX_ERROR",
                   SomeMessage(outcome[2]))

\* yrx_rules_serialize
yrx_rules_serialize(t, rules, outcome) ==
    IF rules # "null"
    THEN IF outcome[1] = "Ok"
         THEN /\ LAST_ERROR' = ClearLastError(LAST_ERROR, t)
              /\ Called(t, "yrx_rules_serialize", "SUCCESS", NULL)
         ELSE /\ LAST_ERROR' = LastErrorSet(LAST_ERROR, t, SomeMessage(outcome[2]))
              /\ Called(t, "yrx_rules_serialize", "SERIALIZATION_ERROR",
                   SomeMessage(outcome[2]))
    ELSE /\ UNCHANGED LAST_ERROR
         /\ Called(t, "yrx_rules_serialize", "INVALID_ARGUMENT", NULL)

\* yrx_rules_deserialize
yrx_rules_deserialize(t, outcome) ==
    IF outcome[1] = "Ok"
    THEN /\ LAST_ERROR' = ClearLastError(LAST_ERROR, t)
         /\ Called(t, "yrx_rules_deserialize", "SUCCESS", NULL)
    ELSE /\ LAST_ERROR' = LastErrorSet(LAST_ERROR, t, SomeMessage(outcome[2]))
         /\ Called(t, "yrx_rules_deserialize", "SERIALIZATION_ERROR",
                   SomeMessage(outcome[2]))

\* yrx_rule_identifier
yrx_rule_identifier(t, rule) ==
    IF rule # "null"
    THEN /\ LAST_ERROR' = ClearLastError(LAST_ERROR, t)
         /\ Called(t, "yrx_rule_identifier", "SUCCESS", NULL)
    ELSE /\ UNCHANGED LAST_ERROR
         /\ Called(t, "yrx_rule_identifier", "INVALID_ARGUMENT", NULL)

\* yrx_rule_namespace
yrx_rule_namespace(t, rule) ==
    IF rule # "null"
    THEN /\ LAST_ERROR' = ClearLastError(LAST_ERROR, t)
         /\ Called(t, "yrx_rule_namespace", "SUCCESS", NULL)
    ELSE /\ UNCHANGED LAST_ERROR
         /\ Called(t, "yrx_rule_namespace", "INVALID_ARGUMENT", NULL)

\* yrx_last_error: the pointer to the thread's message, or null.
yrx_last_error(t) ==
    /\ calls[t] < MaxCalls
    /\ calls' = [calls EXCEPT ![t] = calls[t] + 1]
    /\ observed' = [observed EXCEPT ![t] = <<"returned", LAST_ERROR[t]>>]
    /\ UNCHANGED <<LAST_ERROR, last_call>>
    /\ UNCHANGED <<scan_vars, olecf_vars>>

CapiNext ==
    \E t \in Threads :
        \/ \E outcome \in CallOutcomes : yrx_compile(t, outcome)
        \/ \E rules \in Pointers, outcome \in CallOutcomes :
               yrx_rules_serialize(t, rules, outcome)
        \/ \E outcome \in CallOutcomes : yrx_rules_deserialize(t, outcome)
        \/ \E rule \in Pointers : yrx_rule_identifier(t, rule)
        \/ \E rule \in Pointers : yrx_rule_namespace(t, rule)
        \/ yrx_last_error(t)

SpecCapi == CapiInit /\ [][CapiNext]_vars

(***************************************************************************)
(* Properties of the last error.                                           *)
(***************************************************************************)
\* Thread t's most recent API call was yrx_last_error, and the one before it
\* returned `result`.
LastErrorReadAfter(t, result) ==
    /\ observed[t][1] = "returned"
    /\ last_call[t].result = result

ErrorResults == {"SYNTAX_ERROR", "SERIALIZATION_ERROR", "INVALID_ARGUMENT"}

\* C15: after an API call that returned a code other than SUCCESS, the next
\* yrx_last_error of the thread returns a message, and it is the message that
\* call produced, not one an earlier call left behind.
C15_LastErrorBelongsToLastCall ==
    \A t \in Threads :
        \A result \in ErrorResults :
            LastErrorReadAfter(t, result) =>
                /\ observed[t][2] # NULL
                /\ observed[t][2] = last_call[t].message

\* C16: after an API call that returned SUCCESS, the next yrx_last_error of the
\* thread returns null, whatever LAST_ERROR held before the call.
C16_NullAfterSuccess ==
    \A t \in Threads :
        LastErrorReadAfter(t, "SUCCESS") => observed[t][2] = NULL

\* A thread whose LAST_ERROR held a message made a call that returned SUCCESS
\* and then read null from yrx_last_error.
C16_Witness ==
    \E t \in Threads :
        /\ LastErrorReadAfter(t, "SUCCESS")
        /\ last_call[t].before # NULL
        /\ observed[t][2] = NULL

\* C17: a step changes a thread's LAST_ERROR, or what the thread read from
\* yrx_last_error, only if it is a call of that thread; and what
\* yrx_last_error returns is the thread's own LAST_ERROR.
C17_LastErrorPerThread ==
    [][\A t \in Threads :
           /\ (LAST_ERROR[t]' # LAST_ERROR[t] \/ observed[t]' # observed[t])
                  => calls[t]' = calls[t] + 1
           /\ (calls[t]' = calls[t] + 1 /\ observed[t]'[1] = "returned")
                  => observed[t]'[2] = LAST_ERROR[t]]_vars

\* Thread t1 failed, thread t2 then succeeded, and t1 still reads its message.
C17_Witness ==
    /\ observed["t1"] = <<"returned", SomeMessage("e1")>>
    /\ last_call["t2"].result = "SUCCESS"
    /\ LAST_ERROR["t2"] = NULL
    /\ observed["t2"] = <<"returned", NULL>>

(***************************************************************************)
(* Properties of scan(): the order of its steps, and root_struct.          *)
(***************************************************************************)
\* The steps of a scan before the first module runs.
StepsBeforeModules ==
    <<Step("filesize.set", ""), Step("rules_matching_bitmap.fill", ""),
      Step("rules_matching.clear", ""), Step("scanned_data.set", "")>>

\* The steps of the module loop for the imports `imports`, in their order.
StepsOfModules(imports) ==
    [k \in 1..(2 * Len(imports)) |->
        IF k % 2 = 1 THEN Step("main_fn", imports[(k + 1) \div 2])
        ELSE Step("root_struct.insert", imports[k \div 2])]

\* The steps of a scan whose entry function returns.
StepsOfScan(imports) ==
    StepsBeforeModules \o StepsOfModules(imports)
        \o <<Step("wasm_main_fn.call", ""), Step("wasm_main_fn.return", ""),
             Step("scanned_data.clear", ""), Step("ScanResults::new", "")>>

IsPrefix(s, t) == Len(s) <= Len(t) /\ \A k \in 1..Len(s) : s[k] = t[k]

\* C18: the steps of a scan happen in this order: filesize is set; the bitmap is
\* cleared, rules_matching emptied and the data pointer stored; the main of
\* each imported module runs and its tree is inserted, in the order of the
\* imports and with the data pointer set; the entry function is called once,
\* after every tree was inserted; after it returns the data pointer is cleared,
\* and then the results view is created.
C18_ScanStepsInOrder ==
    LET imports == compiled_rules.imported_modules
        whole == StepsOfScan(imports)
        entered == Len(StepsBeforeModules) + 2 * Len(imports) + 1
    IN  /\ \/ IsPrefix(log, whole)
           \/ /\ pc = "panicked"
              /\ log = SubSeq(whole, 1, entered)
                           \o <<Step("wasm_main_fn.return", ""), Step("panic", "")>>
        /\ pc = "modules" =>
               /\ scanned_data # NULL
               /\ filesize = scanned_data_len
               /\ Len(log) = Len(StepsBeforeModules) + 2 * (mod_idx - 1)
        /\ pc = "vm" =>
               /\ Len(log) = entered
               /\ Range(imports) \subseteq DOMAIN root_struct
               /\ scanned_data # NULL
        /\ view => (log = whole /\ scanned_data = NULL)

\* A scan with two imported modules has returned its results.
C18_Witness ==
    /\ pc = "idle"
    /\ view
    /\ Len(compiled_rules.imported_modules) = 2
    /\ Len(log) = 12

\* C19: after every scan root_struct has exactly the imported module names as
\* keys, and maps each to the tree the module's main produced in this scan,
\* whatever earlier scans stored.
C19_RootStructOfThisScan ==
    (pc \in {"idle", "panicked"} /\ history # << >>) =>
        LET data == history[Len(history)].data
        IN  /\ DOMAIN root_struct = Range(compiled_rules.imported_modules)
            /\ \A m \in DOMAIN root_struct : root_struct[m] = ModuleOutput(m, Len(data))

\* Two scans of buffers of different lengths were made with imported modules.
C19_Witness ==
    /\ pc = "idle"
    /\ Len(history) = 2
    /\ Len(history[1].data) # Len(history[2].data)
    /\ compiled_rules.imported_modules # << >>
    /\ DOMAIN root_struct = {"m1", "m2"}

(***************************************************************************)
(* Properties of the sector lists of a parser.                             *)
(***************************************************************************)
AllRegular(sectors) == \A i \in 1..Len(sectors) : U32Lt(sectors[i], MAX_REGULAR_SECTOR)

\* C21: after a successful new() every sector number in fat_sectors,
\* directory_sectors and mini_fat_sectors is below 0xFFFFFFFA.
C21_OnlyRegularSectorsStored ==
    p_pc = "ready" =>
        /\ AllRegular(fat_sectors)
        /\ AllRegular(directory_sectors)
        /\ AllRegular(mini_fat_sectors)

(***************************************************************************)
(* Properties of parse_directory: the type byte.                           *)
(***************************************************************************)
\* The places in the directory of the accepted entries whose type is in `types`.
EntriesOfType(types) ==
    {k \in 1..Len(image.dir) :
        NameLenInRange(image.dir[k]) /\ image.dir[k].stream_type \in types}

\* The last place in `places`.
LastOf(places) == CHOOSE k \in places : \A j \in places : j <= k

\* The DirectoryEntry read from the entry at place k of the directory.
EntryAt(k) ==
    [name |-> SurfacedName(image.dir[k]), size |-> U64(image.dir[k].size),
     start_sector |-> image.dir[k].start_sector,
     stream_type |-> image.dir[k].stream_type]

\* The mini stream is that of the last accepted root-storage entry, if any.
MiniStreamFromRoot ==
    LET roots == EntriesOfType({5})
    IN  IF roots = {}
        THEN mini_stream_start = <<0, 0>> /\ mini_stream_size = 0
        ELSE /\ mini_stream_start = image.dir[LastOf(roots)].start_sector
             /\ mini_stream_size = U64(image.dir[LastOf(roots)].size)

\* The map holds the accepted entries whose type is in `types`, under their
\* names, the last one in directory order when a name occurs more than once.
MapHoldsLastOf(types) ==
    /\ DOMAIN dir_entries = {SurfacedName(image.dir[k]) : k \in EntriesOfType(types)}
    /\ \A n \in DOMAIN dir_entries :
           dir_entries[n] =
               EntryAt(LastOf({k \in EntriesOfType(types) : SurfacedName(image.dir[k]) = n}))

\* The parser read the one directory sector of the buffer.
DirectoryRead == p_pc = "ready" /\ directory_sectors = <<U32(image.dirloc)>>

\* C22 as stated: an entry of another type than 1, 2, 5 is ignored; a
\* root-storage entry sets the mini stream's start and size; only the storage
\* and stream entries are in the map, the later one under a name shared by two.
C22_OnlyStoragesAndStreamsInMap ==
    DirectoryRead => (MiniStreamFromRoot /\ MapHoldsLastOf({1, 2}))

\* C22, amended: an entry of another type than 1, 2, 5 is ignored; a
\* root-storage entry sets the mini stream's start and size and is inserted in
\* the map as the storage and stream entries are; under a name shared by two
\* inserted entries the map holds the one later in directory order.
C22_TypedEntriesInMap ==
    DirectoryRead => (MiniStreamFromRoot /\ MapHoldsLastOf({1, 2, 5}))

\* Two streams of the same name and different sizes were read, the map holds
\* the second.
C22_Witness ==
    /\ DirectoryRead
    /\ EntriesOfType({2}) = {1, 2}
    /\ SurfacedName(image.dir[1]) = SurfacedName(image.dir[2])
    /\ image.dir[1].size # image.dir[2].size
    /\ dir_entries[SurfacedName(image.dir[2])] = EntryAt(2)

(***************************************************************************)
(* Properties of get_stream_data: the iterations of the readers' loops.    *)
(***************************************************************************)
\* ceil(a / b)
CeilDiv(a, b) == (a + b - 1) \div b

\* Every slice appended to the data holds at least one byte.
NoEmptySlice(slices) == \A i \in 1..Len(slices) : slices[i][2] >= 1

\* C23: get_stream_data returns after a bounded number of iterations, whatever
\* the FAT and the mini-FAT are: a regular read enters its loop's body at most
\* ceil(size / 512) times, a mini-stream read at most ceil(size / 64) times after
\* a regular read of the root's mini stream, and an iteration that goes on has
\* appended at least one byte.
C23_ReadsEndWithinSizeBound ==
    ReadRan =>
        /\ read.path = "regular" =>
               read.iterations <= CeilDiv(ReadEntry.size, sector_size)
        /\ read.path = "mini" =>
               /\ read.iterations <= CeilDiv(ReadEntry.size, mini_sector_size)
               /\ read.root_iterations <= CeilDiv(mini_stream_size, sector_size)
        /\ IsOk(read.result) =>
               /\ NoEmptySlice(read.result[2])
               /\ Len(read.result[2]) = read.iterations

\* A stream of 4096 bytes was read whole from the cycle of the sectors 4 and 5,
\* in eight iterations.
C23_Witness ==
    /\ read.path = "regular"
    /\ image.fat = FatCycle
    /\ ReadEntry.start_sector = U32(4)
    /\ IsOk(read.result)
    /\ read.iterations = 8
    /\ read.result[2][1] = read.result[2][3]
====
